---- MODULE Spec2Model ----
(***************************************************************************)
(* Model of resources/scripts/setup_venv.py, the first-run setup script of *)
(* ESPHome Desktop.                                                        *)
(*                                                                         *)
(* The script is run twice side by side on two copies of the same          *)
(* data_dir: run FALSE without --offline and run TRUE with --offline.      *)
(* Both runs see the same outcomes of the external commands (env), so the  *)
(* two can be compared.  When both have ended the script may be invoked    *)
(* again on the directories the earlier runs left behind.                  *)
(*                                                                         *)
(* Text is modelled as a sequence of tokens (a Str); a path is the         *)
(* sequence of its components, "/" being the root.                         *)
(***************************************************************************)
EXTENDS Integers, Sequences, FiniteSets, TLC

VARIABLES
    data_dir_arg,  \* args.data_dir as given on the command line (a path)
    platform,      \* sys.platform
    env,           \* outcome of each external command of this invocation
    nruns,         \* number of invocations so far
    pc,            \* pc[o]: position of run o in main
    log,           \* log[o]: the lines printed by log()
    cmds,          \* cmds[o]: the argv of every subprocess.run call, in order
    tty,           \* tty[o]: child output that went straight to the terminal
    fs,            \* fs[o]: data_dir and its entries
    ret,           \* ret[o]: <<>> until main returns, then <<code>>
    exc,           \* exc[o]: the exception that left main, if any
    steps,         \* steps[o]: the functions entered, in order
    fs0,           \* fs0[o]: fs[o] when the current invocation started
    prev           \* prev[o]: ret and fs at the end of the previous invocation

vars == <<data_dir_arg, platform, env, nruns, pc, log, cmds, tty, fs, ret,
          exc, steps, fs0, prev>>

(* ------------------------------ bounds -------------------------------- *)

\* number of invocations of the script on the same data_dir
MaxRuns == 2

\* largest exit status an external command returns
MaxRc == 1

(* ------------------------------ inputs -------------------------------- *)

\* the value of --offline distinguishes the two runs
Runs == BOOLEAN

Cwd == <<"/", "home", "user">>

DataDirs == { <<"/", "opt", "esphome">>, <<"..", "esphome">> }

PythonExe == <<"python3">>

Platforms == {"linux", "win32"}

Names == {"venv", "platformio", "platformio_env.sh", "user.yaml"}

NoEntry == [kind |-> "none", content |-> <<>>]

Dir == [kind |-> "dir", content |-> <<>>]

File(content) == [kind |-> "file", content |-> content]

OldContents == { <<"export PLATFORMIO_CORE_DIR=", "/", "old", "\n", "# edited", "\n">> }

\* the states data_dir can be in before the first invocation
InitialFs ==
    { [data_dir |-> "absent", entries |-> [n \in Names |-> NoEntry]],
      [data_dir |-> "file", entries |-> [n \in Names |-> NoEntry]] }
    \cup
    { [data_dir |-> "dir",
       entries |-> [n \in Names |->
           CASE n = "venv" -> NoEntry
             [] n = "platformio" -> p
             [] n = "platformio_env.sh" -> c
             [] OTHER -> u]] :
         p \in {NoEntry, Dir, File(<<>>)},
         c \in {NoEntry, Dir} \cup {File(t) : t \in OldContents},
         u \in {NoEntry, File(<<"esphome:", "\n">>)} }

(* ------------------- outcomes of external commands -------------------- *)

Unset == [kind |-> "unset", rc |-> 0, stdout |-> <<>>, stderr |-> <<>>]

Exit(rc, out, err) == [kind |-> "exit", rc |-> rc, stdout |-> out, stderr |-> err]

\* the executable could not be started: subprocess.run raises OSError
CannotStart == [kind |-> "oserror", rc |-> 0, stdout |-> <<>>, stderr |-> <<>>]

ToolOutcomes ==
    { Exit(0, <<"done", "\n">>, <<>>), CannotStart }
    \cup { Exit(rc, <<>>, <<"ERROR: failed", "\n">>) : rc \in 1..MaxRc }

VersionOutcomes ==
    { Exit(0, out, <<>>) : out \in { <<"Version: 2024.1.0", "\n">>,
                                     <<" ", "Version: 2024.1.0", " ", "\n">> } }
    \cup { Exit(rc, <<>>, err) : rc \in 1..MaxRc,
                err \in { <<"No module named esphome", "\n">> } }
    \cup { CannotStart }

Commands == {"venv", "pip_upgrade", "pip_install", "version"}

OutcomesOf(c) == IF c = "version" THEN VersionOutcomes ELSE ToolOutcomes

\* the outcomes command c may have: the one already observed by the other
\* run, or any outcome if no run has reached the command yet
Possible(c) == IF env[c] = Unset THEN OutcomesOf(c) ELSE {env[c]}

(* ------------------------------ pathlib -------------------------------- *)

IsAbsolute(p) == Len(p) > 0 /\ p[1] = "/"

RECURSIVE Collapse(_, _)
\* drops "." and resolves ".." against what precedes it; ".." at the root stays at the root
Collapse(p, acc) ==
    IF p = <<>> THEN acc
    ELSE IF Head(p) = "." THEN Collapse(Tail(p), acc)
    ELSE IF Head(p) = ".." THEN
        Collapse(Tail(p), IF Len(acc) > 1 THEN SubSeq(acc, 1, Len(acc) - 1) ELSE acc)
    ELSE Collapse(Tail(p), Append(acc, Head(p)))

\* Path.resolve(): absolute, without "." and ".."
resolve(p) == Collapse(IF IsAbsolute(p) THEN p ELSE Cwd \o p, <<>>)

\* the operator / of Path
PathJoin(p, name) == Append(p, name)

Sep == IF platform = "win32" THEN "\\" ELSE "/"

RECURSIVE JoinSep(_)
JoinSep(p) ==
    IF Len(p) <= 1 THEN p ELSE <<Head(p), Sep>> \o JoinSep(Tail(p))

\* str(path): the components with a separator between them
PathStr(p) == IF IsAbsolute(p) THEN <<"/">> \o JoinSep(Tail(p)) ELSE JoinSep(p)

(* --------------------------- str.strip() ------------------------------- *)

Whitespace == {" ", "\n", "\t"}

RECURSIVE lstrip(_)
lstrip(s) == IF s # <<>> /\ Head(s) \in Whitespace THEN lstrip(Tail(s)) ELSE s

RECURSIVE rstrip(_)
rstrip(s) ==
    IF s # <<>> /\ s[Len(s)] \in Whitespace THEN rstrip(SubSeq(s, 1, Len(s) - 1)) ELSE s

strip(s) == rstrip(lstrip(s))

(* ----------------------------- exceptions ------------------------------ *)

NoExc == [type |-> "none", cmd |-> <<>>, returncode |-> 0, output |-> <<>>,
          stderr |-> <<>>, what |-> <<>>]

CalledProcessError(cmd, rc, out, err) ==
    [type |-> "CalledProcessError", cmd |-> cmd, returncode |-> rc, output |-> out,
     stderr |-> err, what |-> <<>>]

OSError(type, what) ==
    [type |-> type, cmd |-> <<>>, returncode |-> 0, output |-> <<>>, stderr |-> <<>>,
     what |-> what]

RECURSIVE Flatten(_)
Flatten(args) == IF args = <<>> THEN <<>> ELSE Head(args) \o <<" ">> \o Flatten(Tail(args))

\* str(e): a CalledProcessError names the command and its exit status, and
\* nothing of the output it carries
ExcStr(e) ==
    IF e.type = "CalledProcessError"
    THEN <<"Command '">> \o Flatten(e.cmd)
           \o <<"' returned non-zero exit status ", ToString(e.returncode), ".">>
    ELSE <<e.type, ": ">> \o e.what

(* ------------------- the state one run works on ------------------------ *)

NoResult == [returncode |-> 0, stdout |-> <<>>, stderr |-> <<>>]

\* what run o has printed, called and written so far, as one record the
\* functions of the script transform
Frame(o) ==
    [log |-> log[o], cmds |-> cmds[o], tty |-> tty[o], fs |-> fs[o],
     steps |-> steps[o], exc |-> NoExc, result |-> NoResult, ok |-> TRUE,
     ret |-> <<>>]

Enter(r, fn) == [r EXCEPT !.steps = Append(@, fn)]

Raise(r, e) == [r EXCEPT !.exc = e]

\* log(msg): print(f"[setup] {msg}", flush=True)
Log(r, msg) == [r EXCEPT !.log = Append(@, [prefix |-> "[setup] ", msg |-> msg])]

\* subprocess.run without check=True: a non-zero exit status is returned,
\* not raised
subprocess_run_unchecked(r, cmd, oc, capture) ==
    LET r1 == [r EXCEPT !.cmds = Append(@, cmd)]
    IN  IF oc.kind = "oserror"
        THEN Raise(r1, OSError("FileNotFoundError", cmd[1]))
        ELSE [r1 EXCEPT
                !.tty = IF capture THEN @ ELSE @ \o oc.stdout \o oc.stderr,
                !.result = [returncode |-> oc.rc,
                            stdout |-> IF capture THEN oc.stdout ELSE <<>>,
                            stderr |-> IF capture THEN oc.stderr ELSE <<>>]]

\* subprocess.run(cmd, check=True[, capture_output=True, text=True]):
\* the child either cannot be started (OSError), or runs to its exit
\* status; its output is captured into the result or goes to the terminal;
\* a non-zero exit status raises CalledProcessError
subprocess_run(r, cmd, oc, capture) ==
    LET r1 == [r EXCEPT !.cmds = Append(@, cmd)]
        out == IF capture THEN oc.stdout ELSE <<>>
        err == IF capture THEN oc.stderr ELSE <<>>
        r2 == [r1 EXCEPT
                !.tty = IF capture THEN @ ELSE @ \o oc.stdout \o oc.stderr,
                !.result = [returncode |-> oc.rc, stdout |-> out, stderr |-> err]]
    IN  IF oc.kind = "oserror"
        THEN Raise(r1, OSError("FileNotFoundError", cmd[1]))
        ELSE IF oc.rc # 0
        THEN Raise(r2, CalledProcessError(cmd, oc.rc, out, err))
        ELSE r2

Last(p) == p[Len(p)]

\* data_dir.mkdir(parents=True, exist_ok=True)
mkdir_parents(r) ==
    IF r.fs.data_dir = "file"
    THEN Raise(r, OSError("FileExistsError", <<"data_dir">>))
    ELSE [r EXCEPT !.fs.data_dir = "dir"]

\* path.mkdir(exist_ok=True) for an entry of data_dir
mkdir(r, path) ==
    LET n == Last(path)
    IN  CASE r.fs.entries[n].kind = "none" -> [r EXCEPT !.fs.entries[n] = Dir]
          [] r.fs.entries[n].kind = "dir" -> r
          [] OTHER -> Raise(r, OSError("FileExistsError", PathStr(path)))

\* a file opened for appending keeps what it held
OpenAppend(old, text) == old \o text

\* a file opened with mode "w" is truncated
OpenWrite(old, text) == text

\* with open(path, "w") as f: f.write(text)
write_text(r, path, text) ==
    LET n == Last(path)
    IN  IF r.fs.entries[n].kind = "dir"
        THEN Raise(r, OSError("IsADirectoryError", PathStr(path)))
        ELSE [r EXCEPT !.fs.entries[n] = File(OpenWrite(@.content, text))]

(* ----------------------- the script's functions ------------------------ *)

\* a main that resolves nothing: data_dir as given on the command line
data_dir_unresolved == data_dir_arg

\* main, line 99
data_dir == resolve(data_dir_arg)

\* main, line 102
venv_dir == PathJoin(data_dir, "venv")

\* create_venv(venv_dir, python_exe); the command creates venv_dir when it
\* exits with status zero
create_venv(r, vdir, python_exe, oc) ==
    LET r1 == Log(Enter(r, "create_venv"),
                  <<"Creating virtual environment at ">> \o PathStr(vdir))
        r2 == subprocess_run(r1, <<python_exe, <<"-m">>, <<"venv">>, PathStr(vdir)>>,
                             oc, FALSE)
    IN  IF oc.kind = "exit" /\ oc.rc = 0
        THEN [r2 EXCEPT !.fs.entries[Last(vdir)] = Dir]
        ELSE r2

get_venv_python(vdir) ==
    IF platform = "win32"
    THEN PathStr(PathJoin(PathJoin(vdir, "Scripts"), "python.exe"))
    ELSE PathStr(PathJoin(PathJoin(vdir, "bin"), "python"))

\* a pip self-upgrade that is left out when offline
upgrade_pip_unless_offline(r, venv_python, offline, oc) ==
    IF offline
    THEN Enter(r, "install_esphome")
    ELSE subprocess_run(
             Log(Enter(r, "install_esphome"), <<"Upgrading pip">>),
             <<venv_python, <<"-m">>, <<"pip">>, <<"install">>, <<"--upgrade">>, <<"pip">>>>,
             oc, FALSE)

\* install_esphome, lines 40-43: the pip self-upgrade
upgrade_pip(r, venv_python, offline, oc) ==
    subprocess_run(
        Log(Enter(r, "install_esphome"), <<"Upgrading pip">>),
        <<venv_python, <<"-m">>, <<"pip">>, <<"install">>, <<"--upgrade">>, <<"pip">>>>,
        oc, FALSE)

OfflineArgs == << <<"--no-index">>, <<"--find-links">>, <<"wheels">> >>

\* install_esphome, lines 45-50: the installation of the package
pip_install(r, venv_python, offline, oc) ==
    LET cmd == <<venv_python, <<"-m">>, <<"pip">>, <<"install">>, <<"esphome">>>>
    IN  subprocess_run(Log(r, <<"Installing ESPHome">>),
                       IF offline THEN cmd \o OfflineArgs ELSE cmd, oc, FALSE)

\* configure_platformio(venv_python, data_dir)
configure_platformio(r, venv_python, ddir) ==
    LET platformio_home == PathJoin(ddir, "platformio")
        config_file == PathJoin(ddir, "platformio_env.sh")
        r1 == Log(Enter(r, "configure_platformio"), <<"Configuring PlatformIO">>)
        r2 == mkdir(r1, platformio_home)
        r3 == IF r2.exc = NoExc
              THEN write_text(r2, config_file,
                       <<"export PLATFORMIO_CORE_DIR=">> \o PathStr(platformio_home)
                           \o <<"\n">>)
              ELSE r2
    IN  IF r3.exc = NoExc
        THEN Log(r3, <<"PlatformIO configured to use ">> \o PathStr(platformio_home))
        ELSE r3

\* a verification that lets CalledProcessError propagate
verify_installation_raising(r, venv_python, oc) ==
    LET r1 == Log(Enter(r, "verify_installation"), <<"Verifying installation">>)
        r2 == subprocess_run(r1, <<venv_python, <<"-m">>, <<"esphome">>, <<"version">>>>,
                             oc, TRUE)
    IN  IF r2.exc = NoExc
        THEN Log(r2, <<"ESPHome installed: ">> \o strip(r2.result.stdout))
        ELSE r2

\* verify_installation(venv_python): r.ok is the value returned
verify_installation(r, venv_python, oc) ==
    LET r1 == Log(Enter(r, "verify_installation"), <<"Verifying installation">>)
        r2 == subprocess_run(r1, <<venv_python, <<"-m">>, <<"esphome">>, <<"version">>>>,
                             oc, TRUE)
    IN  IF r2.exc = NoExc
        THEN [Log(r2, <<"ESPHome installed: ">> \o strip(r2.result.stdout))
                 EXCEPT !.ok = TRUE]
        ELSE IF r2.exc.type = "CalledProcessError"
        THEN [Log(r2, <<"Verification failed: ">> \o ExcStr(r2.exc))
                 EXCEPT !.ok = FALSE, !.exc = NoExc]
        ELSE r2

Return(r, code) == [r EXCEPT !.ret = <<code>>, !.exc = NoExc]

\* handlers that remove the virtual environment before returning
main_except_cleanup(r) ==
    IF r.exc = NoExc THEN r
    ELSE IF r.exc.type = "CalledProcessError"
    THEN Return([Log(r, <<"Setup failed: ">> \o ExcStr(r.exc))
                    EXCEPT !.fs.entries["venv"] = NoEntry], 1)
    ELSE Return([Log(r, <<"Unexpected error: ">> \o ExcStr(r.exc))
                    EXCEPT !.fs.entries["venv"] = NoEntry], 1)

\* main, lines 125-130: the two except clauses of the try statement
main_except(r) ==
    IF r.exc = NoExc THEN r
    ELSE IF r.exc.type = "CalledProcessError"
    THEN Return(Log(r, <<"Setup failed: ">> \o ExcStr(r.exc)), 1)
    ELSE Return(Log(r, <<"Unexpected error: ">> \o ExcStr(r.exc)), 1)

\* a main that reports success whatever verify_installation returned
main_finish_unchecked(r) ==
    IF r.exc # NoExc THEN r
    ELSE Return(Log(r, <<"Setup complete!">>), 0)

\* a main whose failure branch lacks its return statement
main_finish_fallthrough(r) ==
    IF r.exc # NoExc THEN r
    ELSE IF ~r.ok
    THEN Return(Log(Log(r, <<"Installation verification failed!">>),
                    <<"Setup complete!">>), 0)
    ELSE Return(Log(r, <<"Setup complete!">>), 0)

\* main, lines 118-123: what follows the call of verify_installation
main_finish(r) ==
    IF r.exc # NoExc THEN r
    ELSE IF ~r.ok
    THEN Return(Log(r, <<"Installation verification failed!">>), 1)
    ELSE Return(Log(r, <<"Setup complete!">>), 0)

(* ------------------------------ the runs ------------------------------- *)

Ended(o) == pc[o] \in {"returned", "raised"}

Init ==
    /\ data_dir_arg \in DataDirs
    /\ platform \in Platforms
    /\ env = [c \in Commands |-> Unset]
    /\ nruns = 1
    /\ pc = [o \in Runs |-> "main"]
    /\ log = [o \in Runs |-> <<>>]
    /\ cmds = [o \in Runs |-> <<>>]
    /\ tty = [o \in Runs |-> <<>>]
    /\ \E f \in InitialFs : fs = [o \in Runs |-> f]
    /\ ret = [o \in Runs |-> <<>>]
    /\ exc = [o \in Runs |-> NoExc]
    /\ steps = [o \in Runs |-> <<>>]
    /\ fs0 = fs
    /\ prev = [o \in Runs |-> [ret |-> <<>>, fs |-> fs[o]]]

\* run o continues from frame r: at `next`, or not at all when r returned
\* or raised
Commit(o, r, next) ==
    /\ log' = [log EXCEPT ![o] = r.log]
    /\ cmds' = [cmds EXCEPT ![o] = r.cmds]
    /\ tty' = [tty EXCEPT ![o] = r.tty]
    /\ fs' = [fs EXCEPT ![o] = r.fs]
    /\ steps' = [steps EXCEPT ![o] = r.steps]
    /\ ret' = [ret EXCEPT ![o] = r.ret]
    /\ exc' = [exc EXCEPT ![o] = r.exc]
    /\ pc' = [pc EXCEPT ![o] = IF r.exc # NoExc THEN "raised"
                                ELSE IF r.ret # <<>> THEN "returned"
                                ELSE next]
    /\ UNCHANGED <<data_dir_arg, platform, nruns, fs0, prev>>

\* main, lines 89-102: the arguments are parsed and data_dir is created,
\* before the try statement is entered
MainStart(o) ==
    /\ pc[o] = "main"
    /\ Commit(o, mkdir_parents(Enter(Frame(o), "main")), "create_venv")
    /\ UNCHANGED env

\* main, lines 105-106
CreateVenv(o) ==
    /\ pc[o] = "create_venv"
    /\ \E oc \in Possible("venv") :
         /\ env' = [env EXCEPT !["venv"] = oc]
         /\ Commit(o, main_except(create_venv(Frame(o), venv_dir, PythonExe, oc)),
                   "upgrade_pip")

\* main, lines 109-112, first command of install_esphome
UpgradePip(o) ==
    /\ pc[o] = "upgrade_pip"
    /\ \E oc \in Possible("pip_upgrade") :
         /\ env' = [env EXCEPT !["pip_upgrade"] = oc]
         /\ Commit(o, main_except(upgrade_pip(Frame(o), get_venv_python(venv_dir), o, oc)),
                   "pip_install")

\* main, line 112, second command of install_esphome
PipInstall(o) ==
    /\ pc[o] = "pip_install"
    /\ \E oc \in Possible("pip_install") :
         /\ env' = [env EXCEPT !["pip_install"] = oc]
         /\ Commit(o, main_except(pip_install(Frame(o), get_venv_python(venv_dir), o, oc)),
                   "configure_platformio")

\* main, lines 114-115
ConfigurePlatformio(o) ==
    /\ pc[o] = "configure_platformio"
    /\ Commit(o, main_except(configure_platformio(Frame(o), get_venv_python(venv_dir),
                                                  data_dir)),
              "verify_installation")
    /\ UNCHANGED env

\* main, lines 117-123
VerifyInstallation(o) ==
    /\ pc[o] = "verify_installation"
    /\ \E oc \in Possible("version") :
         /\ env' = [env EXCEPT !["version"] = oc]
         /\ Commit(o, main_except(main_finish(
                          verify_installation(Frame(o), get_venv_python(venv_dir), oc))),
                   "returned")

\* the script is invoked again, with the same arguments, on what the
\* previous invocation left in data_dir
Invoke ==
    /\ \A o \in Runs : Ended(o)
    /\ nruns < MaxRuns
    /\ nruns' = nruns + 1
    /\ env' = [c \in Commands |-> Unset]
    /\ pc' = [o \in Runs |-> "main"]
    /\ log' = [o \in Runs |-> <<>>]
    /\ cmds' = [o \in Runs |-> <<>>]
    /\ tty' = [o \in Runs |-> <<>>]
    /\ ret' = [o \in Runs |-> <<>>]
    /\ exc' = [o \in Runs |-> NoExc]
    /\ steps' = [o \in Runs |-> <<>>]
    /\ fs0' = fs
    /\ prev' = [o \in Runs |-> [ret |-> ret[o], fs |-> fs[o]]]
    /\ UNCHANGED <<data_dir_arg, platform, fs>>

Next ==
    \/ \E o \in Runs : MainStart(o)
    \/ \E o \in Runs : CreateVenv(o)
    \/ \E o \in Runs : UpgradePip(o)
    \/ \E o \in Runs : PipInstall(o)
    \/ \E o \in Runs : ConfigurePlatformio(o)
    \/ \E o \in Runs : VerifyInstallation(o)
    \/ Invoke

Spec == Init /\ [][Next]_vars

(* ---------------------- vocabulary of the claims ----------------------- *)

Range(q) == {q[i] : i \in DOMAIN q}

\* the first token of each line run o has logged
Heads(o) == [i \in DOMAIN log[o] |-> log[o][i].msg[1]]

HasLine(o, head) == head \in Range(Heads(o))

OutcomeHeads ==
    {"Setup complete!", "Installation verification failed!", "Setup failed: ",
     "Unexpected error: "}

ExitedZero(c) == env[c].kind = "exit" /\ env[c].rc = 0

ExitedNonZero(c) == env[c].kind = "exit" /\ env[c].rc # 0

\* the order in which main issues its external commands
CommandOrder == <<"venv", "pip_upgrade", "pip_install", "version">>

\* which command an argv is, read off its module and arguments
KindOf(cmd) ==
    CASE cmd[3] = <<"venv">> -> "venv"
      [] cmd[3] = <<"esphome">> -> "version"
      [] cmd[3] = <<"pip">> /\ cmd[5] = <<"--upgrade">> -> "pip_upgrade"
      [] OTHER -> "pip_install"

\* data_dir held, when the invocation started, nothing that makes the
\* configuration step fail: no file named platformio, no directory named
\* platformio_env.sh
ConfigCanSucceed(o) ==
    /\ fs0[o].entries["platformio"].kind # "file"
    /\ fs0[o].entries["platformio_env.sh"].kind # "dir"

\* the resolved data_dir of each command-line value, worked out by hand
ResolvedByHand ==
    CASE data_dir_arg = <<"/", "opt", "esphome">> -> <<"opt", "esphome">>
      [] data_dir_arg = <<"..", "esphome">> -> <<"home", "esphome">>

\* text is `export PLATFORMIO_CORE_DIR=<P>` and a newline, <P> being the
\* root followed by the hand-resolved data_dir and platformio
IsConfigText(text) ==
    LET want == Append(ResolvedByHand, "platformio")
        n == Len(want)
    IN  /\ Len(text) = 2 * n + 2
        /\ text[1] = "export PLATFORMIO_CORE_DIR="
        /\ text[2] = "/"
        /\ \A i \in 1..n : text[2 * i + 1] = want[i]
        /\ \A i \in 1..(n - 1) : text[2 * i + 2] = Sep
        /\ text[Len(text)] = "\n"

Present(f) == {n \in Names : f.entries[n].kind # "none"}

Fresh(f) == f.data_dir = "absent" \/ (f.data_dir = "dir" /\ Present(f) = {})

(* ------------------------------- claims -------------------------------- *)

AllCommandsExitedZero == \A c \in Commands : ExitedZero(c)

\* C1: main returns 0 exactly when the four external commands all exited
\* with status zero and the platformio directory and the config file could
\* be written; every other run that gets into the step sequence returns 1,
\* and none leaves main in another way.
C1_ExitCode ==
    \A o \in Runs :
        /\ pc[o] = "returned" =>
              /\ ret[o] \in {<<0>>, <<1>>}
              /\ ret[o] = <<0>> <=> (AllCommandsExitedZero /\ ConfigCanSucceed(o))
        /\ pc[o] = "raised" => steps[o] = <<"main">>
        /\ pc[o] \notin {"returned"} => ret[o] = <<>>

\* an invocation that returned 0 after the invocation before it returned 1
C1_Witness ==
    \E o \in Runs : ret[o] = <<0>> /\ prev[o].ret = <<1>>

IsPrefix(p, q) == Len(p) <= Len(q) /\ \A i \in DOMAIN p : p[i] = q[i]

StepOrder ==
    <<"main", "create_venv", "install_esphome", "configure_platformio",
      "verify_installation">>

VerificationHeads == {"Verifying installation", "ESPHome installed: ", "Verification failed: "}

\* C3: the steps run in the fixed order, each external command at most
\* once, a command only after every command before it exited zero, the
\* configuration only after the three commands before it exited zero, the
\* verification only after the configuration wrote its file; a failed
\* pip upgrade or ESPHome install ends the run with exit code 1, without
\* the version check and without any verification log line.
C3_StrictSequence ==
    \A o \in Runs :
        /\ IsPrefix(steps[o], StepOrder)
        /\ Len(cmds[o]) <= Len(CommandOrder)
        /\ \A i \in DOMAIN cmds[o] :
              /\ KindOf(cmds[o][i]) = CommandOrder[i]
              /\ \A j \in 1..(i - 1) : ExitedZero(CommandOrder[j])
        /\ "configure_platformio" \in Range(steps[o]) =>
              /\ Len(cmds[o]) >= 3
              /\ \A j \in 1..3 : ExitedZero(CommandOrder[j])
        /\ "verify_installation" \in Range(steps[o]) =>
              /\ fs[o].entries["platformio"].kind = "dir"
              /\ fs[o].entries["platformio_env.sh"].kind = "file"
              /\ HasLine(o, "PlatformIO configured to use ")
        /\ \A i \in 2..3 :
              (Len(cmds[o]) >= i /\ ~ExitedZero(CommandOrder[i])) =>
                  /\ ret[o] = <<1>>
                  /\ Len(cmds[o]) = i
                  /\ Range(steps[o]) \cap {"configure_platformio", "verify_installation"} = {}
                  /\ Range(Heads(o)) \cap VerificationHeads = {}

\* a run that ended at a failed ESPHome install
C3_Witness ==
    \E o \in Runs :
        Len(cmds[o]) = 3 /\ ExitedNonZero("pip_install") /\ pc[o] = "returned"

\* C4: when everything up to the configuration succeeded and the version
\* check exits non-zero, the run logs 'Verification failed' and then
\* 'Installation verification failed!' as its last two lines, returns 1,
\* raises nothing, and logs none of 'Setup failed:', 'Unexpected error:',
\* 'Setup complete!'.
C4_VerificationFailure ==
    \A o \in Runs :
        ( /\ Ended(o)
          /\ \A j \in 1..3 : ExitedZero(CommandOrder[j])
          /\ ConfigCanSucceed(o)
          /\ ExitedNonZero("version") ) =>
            /\ pc[o] = "returned"
            /\ exc[o] = NoExc
            /\ ret[o] = <<1>>
            /\ Len(log[o]) >= 2
            /\ Heads(o)[Len(log[o]) - 1] = "Verification failed: "
            /\ Heads(o)[Len(log[o])] = "Installation verification failed!"
            /\ Range(Heads(o)) \cap
                   {"Setup failed: ", "Unexpected error: ", "Setup complete!"} = {}

\* a run that ended after a version check with a non-zero exit status
C4_Witness ==
    \E o \in Runs :
        Ended(o) /\ Len(cmds[o]) = 4 /\ ExitedNonZero("version")

\* the arguments --offline adds to the ESPHome install command
AddedArgs == << <<"--no-index">>, <<"--find-links">>, <<"wheels">> >>

\* the same arguments as they appear in the text of a quoted command
AddedText == <<"--no-index", " ", "--find-links", " ", "wheels", " ">>

\* apart from their log lines: same files, same child output passed
\* through, same return value, same steps, and the same commands except
\* for the arguments added to the third one, the ESPHome install
SameButInstallArgs ==
    /\ fs[TRUE] = fs[FALSE]
    /\ tty[TRUE] = tty[FALSE]
    /\ ret[TRUE] = ret[FALSE]
    /\ exc[TRUE] = exc[FALSE]
    /\ steps[TRUE] = steps[FALSE]
    /\ Len(cmds[TRUE]) = Len(cmds[FALSE])
    /\ \A i \in DOMAIN cmds[FALSE] :
          /\ cmds[TRUE][i] = IF i = 3 THEN cmds[FALSE][i] \o AddedArgs ELSE cmds[FALSE][i]
          /\ Range(cmds[FALSE][i]) \cap Range(AddedArgs) = {}

\* text b is text a with the added arguments inserted somewhere
WithAddedText(a, b) ==
    \E k \in 1..Len(b) :
        /\ k + Len(AddedText) - 1 <= Len(b)
        /\ SubSeq(b, k, k + Len(AddedText) - 1) = AddedText
        /\ SubSeq(b, 1, k - 1) \o SubSeq(b, k + Len(AddedText), Len(b)) = a

\* C5 as claimed: at the same position of main, the run with --offline and
\* the run without it have logged the same lines, written the same files
\* and returned the same code, and have issued the same commands except
\* for the arguments added to the ESPHome install command.
C5_SameLogLines ==
    pc[TRUE] = pc[FALSE] => (log[TRUE] = log[FALSE] /\ SameButInstallArgs)

\* C5, amended: as claimed, except that a 'Setup failed: ' line reporting
\* the failed ESPHome install quotes the command and so shows the added
\* arguments too; every other log line is the same in both runs.
C5_OfflineOnlyChangesInstallArgs ==
    pc[TRUE] = pc[FALSE] =>
        /\ SameButInstallArgs
        /\ Len(log[TRUE]) = Len(log[FALSE])
        /\ \A i \in DOMAIN log[FALSE] :
              IF Heads(FALSE)[i] = "Setup failed: " /\ Len(cmds[FALSE]) = 3
              THEN /\ log[TRUE][i].prefix = log[FALSE][i].prefix
                   /\ WithAddedText(log[FALSE][i].msg, log[TRUE][i].msg)
              ELSE log[TRUE][i] = log[FALSE][i]

\* both runs ended at a failed ESPHome install, their 'Setup failed: '
\* lines quoting different commands
C5_Witness ==
    /\ pc[TRUE] = "returned" /\ pc[FALSE] = "returned"
    /\ Len(cmds[TRUE]) = 3 /\ Len(cmds[FALSE]) = 3
    /\ ExitedNonZero("pip_install")
    /\ HasLine(TRUE, "Setup failed: ")
    /\ log[TRUE] # log[FALSE]

\* C6: a run that started on an absent or empty data_dir and returned 0
\* leaves exactly venv/, platformio/ and platformio_env.sh in data_dir, the
\* file holding the one line `export PLATFORMIO_CORE_DIR=<P>`, <P> the
\* resolved absolute data_dir followed by platformio.
C6_FreshArtifacts ==
    \A o \in Runs :
        (Fresh(fs0[o]) /\ ret[o] = <<0>>) =>
            /\ fs[o].data_dir = "dir"
            /\ Present(fs[o]) = {"venv", "platformio", "platformio_env.sh"}
            /\ fs[o].entries["venv"].kind = "dir"
            /\ fs[o].entries["platformio"].kind = "dir"
            /\ fs[o].entries["platformio_env.sh"].kind = "file"
            /\ IsConfigText(fs[o].entries["platformio_env.sh"].content)

\* a successful run on a fresh data_dir that was given as a relative path
C6_Witness ==
    \E o \in Runs :
        Fresh(fs0[o]) /\ ret[o] = <<0>> /\ ~IsAbsolute(data_dir_arg)

\* C7: a run that finds platformio/ and a platformio_env.sh (of any
\* content) in data_dir and whose commands all exit zero returns 0 and
\* leaves platformio_env.sh with the one line a fresh run writes; when the
\* invocation before it returned 0 too, it leaves data_dir as it found it.
C7_RerunIdempotent ==
    \A o \in Runs :
        ( /\ Ended(o)
          /\ fs0[o].entries["platformio"].kind = "dir"
          /\ fs0[o].entries["platformio_env.sh"].kind = "file"
          /\ AllCommandsExitedZero ) =>
            /\ ret[o] = <<0>>
            /\ "configure_platformio" \in Range(steps[o])
            /\ IsConfigText(fs[o].entries["platformio_env.sh"].content)
            /\ Cardinality({i \in DOMAIN fs[o].entries["platformio_env.sh"].content :
                   fs[o].entries["platformio_env.sh"].content[i] = "\n"}) = 1
            /\ prev[o].ret = <<0>> => fs[o] = prev[o].fs

\* a second successful invocation
C7_Witness ==
    \E o \in Runs : nruns = 2 /\ prev[o].ret = <<0>> /\ ret[o] = <<0>>

\* what exists stays: data_dir stays a directory, every entry keeps its
\* kind, and every file but platformio_env.sh keeps its content
NothingRemoved ==
    \A o \in Runs :
        /\ fs[o].data_dir = "dir" => fs'[o].data_dir = "dir"
        /\ \A n \in Names :
              fs[o].entries[n].kind # "none" =>
                  /\ fs'[o].entries[n].kind = fs[o].entries[n].kind
                  /\ n # "platformio_env.sh" => fs'[o].entries[n] = fs[o].entries[n]

\* C8: no step of the script, its failure handlers included, removes a
\* file or directory: whatever exists in data_dir exists after every step.
C8_NoRollback == [][NothingRemoved]_vars

\* a run that returned 1 on a data_dir now holding a venv/ it created and a
\* file that was there before
C8_Witness ==
    \E o \in Runs :
        /\ ret[o] = <<1>>
        /\ fs0[o].entries["venv"].kind = "none"
        /\ fs[o].entries["venv"].kind = "dir"
        /\ fs[o].entries["user.yaml"].kind = "file"

OutcomeLines(o) == {i \in DOMAIN log[o] : Heads(o)[i] \in OutcomeHeads}

\* the command run o issued last
LastCommand(o) == CommandOrder[Len(cmds[o])]

\* C10: a run that got past the creation of data_dir always returns; when
\* it has returned its log holds exactly one outcome line, the last line:
\* 'Setup complete!' with return value 0, or with return value 1
\* 'Installation verification failed!' (version check exited non-zero),
\* 'Setup failed: ' (a create/install command exited non-zero) or
\* 'Unexpected error: ' (a command could not be started, or the
\* configuration raised); before it returns there is no outcome line.
C10_OneOutcomeLine ==
    \A o \in Runs :
        /\ pc[o] = "raised" => steps[o] = <<"main">>
        /\ pc[o] # "returned" => OutcomeLines(o) = {}
        /\ pc[o] = "returned" =>
              LET last == Heads(o)[Len(log[o])]
              IN  /\ OutcomeLines(o) = {Len(log[o])}
                  /\ ret[o] \in {<<0>>, <<1>>}
                  /\ ret[o] = <<0>> <=> last = "Setup complete!"
                  /\ last = "Installation verification failed!" <=>
                        (Len(cmds[o]) = 4 /\ ExitedNonZero("version"))
                  /\ last = "Setup failed: " <=>
                        (Len(cmds[o]) \in 1..3 /\ ExitedNonZero(LastCommand(o)))
                  /\ last = "Unexpected error: " <=>
                        \/ (Len(cmds[o]) >= 1 /\ env[LastCommand(o)].kind = "oserror")
                        \/ (Len(cmds[o]) = 3 /\ ExitedZero("pip_install")
                              /\ ~ConfigCanSucceed(o))

\* a run whose version check could not be started
C10_Witness ==
    \E o \in Runs :
        /\ pc[o] = "returned"
        /\ Len(cmds[o]) = 4
        /\ env["version"].kind = "oserror"
        /\ HasLine(o, "Unexpected error: ")

\* run o met a fatal failure in one of the five steps
StepFailed(o) ==
    \/ fs0[o].data_dir = "file"
    \/ \E i \in DOMAIN cmds[o] : ~ExitedZero(CommandOrder[i])
    \/ ("configure_platformio" \in Range(steps[o]) /\ ~ConfigCanSucceed(o))

\* C2 as claimed: no failure of a step, the creation of data_dir included,
\* leaves main as an exception; a run in which a step failed has returned
\* a non-zero code with a '[setup] ' line describing the failure as the
\* last line of its log.
C2_EveryFailureCaught ==
    \A o \in Runs :
        /\ pc[o] # "raised"
        /\ exc[o] = NoExc
        /\ (Ended(o) /\ StepFailed(o)) =>
              /\ ret[o] = <<1>>
              /\ log[o] # <<>>
              /\ log[o][Len(log[o])].prefix = "[setup] "
              /\ Heads(o)[Len(log[o])] \in OutcomeHeads \ {"Setup complete!"}

\* the text of a child's output without its line ends
Words(text) == Range(text) \ Whitespace

\* C9 as claimed: the output of the version check is captured, not passed
\* through; at exit status zero the stripped standard output is logged as
\* the version; at a non-zero exit status the 'Verification failed' line
\* holds the captured error output.
C9_CapturedOutputLogged ==
    \A o \in Runs :
        (Len(cmds[o]) = 4 /\ env["version"].kind = "exit") =>
            /\ Words(env["version"].stdout \o env["version"].stderr)
                   \cap Range(tty[o]) = {}
            /\ env["version"].rc = 0 =>
                  \E i \in DOMAIN log[o] :
                      log[o][i].msg = <<"ESPHome installed: ", "Version: 2024.1.0">>
            /\ env["version"].rc # 0 =>
                  \E i \in DOMAIN log[o] :
                      /\ Heads(o)[i] = "Verification failed: "
                      /\ Words(env["version"].stderr) \subseteq Range(log[o][i].msg)

====
